---- MODULE Spec2Model ----
(***************************************************************************)
(* The client-side data layer of Site Kit: dataAPI.combinedGet batches the *)
(* data requests of the dashboard widgets, resolves what the cache holds   *)
(* on staggered timers, sends the rest in chunks of ten over the REST API  *)
(* and resolves them from the responses.                                   *)
(*                                                                         *)
(* JavaScript runs one handler at a time: every action below is one run to *)
(* completion of a handler (a call of combinedGet, a timer callback, the   *)
(* then/catch handler of a network call).  Time is counted in milliseconds *)
(* for timers and in seconds for the age of cache entries.                 *)
(***************************************************************************)
EXTENDS Integers, Sequences, FiniteSets, TLC

VARIABLES
    maxRequests,   \* dataAPI.maxRequests
    cache,         \* the cache store: key -> [value, storedAt]
    now,           \* the wall clock, in seconds
    timers,        \* pending setTimeout callbacks, in firing order
    inflight,      \* apiFetch calls whose promise has not settled
    requests,      \* every DataRequest submitted so far; its index is its id
    delivered,     \* per request id, the results its callback was invoked with
    handled,       \* the errors handed to handleWPError, in order
    netLog,        \* one entry per apiFetch call issued by combinedGet
    last,          \* the locals of the most recent run of combinedGet
    todo,          \* the combinedGet calls the page has yet to make
    calls,         \* how many calls the page has made
    dataLoaded,    \* the 'googlesitekit.dataLoaded' actions done, in order
    filters,       \* the handlers added with addFilter and not removed
    total,         \* the notification counts the page has computed
    rejects,       \* how many network calls may still reject
    writes,        \* the dataAPI.set calls: yet to make, pending, and settled
    serverErr,     \* the keys for which the service answers with an error
    strays,        \* whether the service adds a key nobody requested
    copies,        \* the copies requestWithDateRange has returned
    ticks          \* how many times the wall clock has jumped

vars == <<maxRequests, cache, now, timers, inflight, requests, delivered,
          handled, netLog, last, todo, calls, dataLoaded, filters, total,
          rejects, writes, serverErr, strays, copies, ticks>>

----------------------------------------------------------------------------
(* Program constants *)

\* maxRequests: 10, and its reset this.maxRequests = 10
InitialMaxRequests == 10
\* const maxDatapointsPerRequest = 10
maxDatapointsPerRequest == 10
\* request.priority < 10, 10 <= request.priority
PriorityThreshold == 10
\* let cacheDelay = 25; cacheDelay += 25
CacheDelayStep == 25
\* setTimeout( ..., 50 ) of the secondary round
RoundDelay == 50
\* the maxAge the data layer itself uses: getCache( cacheKey, 3600 )
HourMaxAge == 3600

(* Bounds of the model *)

\* length of a small request list
MaxLen == 3
\* requests of a long list
MaxBulk == 111
\* requests of a long list submitted twice
MaxDups == 1
\* network calls outstanding at the same time
MaxInFlight == 2
\* jumps of the wall clock by one hour
MaxTicks == 1
\* network calls that reject
MaxRejects == 1
\* calls of dataAPI.set
MaxWrites == 2
\* computations of the notification count
MaxCounts == 2
\* calls of requestWithDateRange
MaxCopies == 2
\* requests of a list of mixed priorities
MaxOrder == 13

----------------------------------------------------------------------------
(* Values *)

\* An absent value (JavaScript undefined) is the empty tuple, a present one a
\* one-element tuple.
Undefined == <<>>
Some(v) == <<v>>

\* getCurrentDateRangeSlug(): the slug of the selected date range, in words.
CurrentDateRangeSlug == <<"last", "28", "days">>
Placeholder == <<"prev-date-range-placeholder">>

\* request.data: a mapping from option names to values.
NoData == [o \in {} |-> Undefined]
DataWith(dr) == [o \in {"dateRange"} |-> dr]

\* { ...a, ...b }: the options of b override those of a.
Spread(a, b) ==
    [o \in DOMAIN a \cup DOMAIN b |-> IF o \in DOMAIN b THEN b[o] ELSE a[o]]

\* String.prototype.replace( 'last', 'prev' ): the first occurrence only.
RECURSIVE ReplaceFirst(_, _, _)
ReplaceFirst(s, from, to) ==
    IF s = <<>> THEN <<>>
    ELSE IF Head(s) = from THEN <<to>> \o Tail(s)
    ELSE <<Head(s)>> \o ReplaceFirst(Tail(s), from, to)

\* A variant in which the default takes the place of the caller's value.
requestWithDateRange_DefaultWins(data, dateRange) ==
    IF "dateRange" \in DOMAIN data /\ data["dateRange"] = Placeholder
    THEN Spread(data, DataWith(ReplaceFirst(dateRange, "last", "prev")))
    ELSE Spread(data, DataWith(dateRange))

\* requestWithDateRange( originalRequest, dateRange ): the data of the copy.
requestWithDateRange(data, dateRange) ==
    IF "dateRange" \in DOMAIN data /\ data["dateRange"] = Placeholder
    THEN Spread(data, DataWith(ReplaceFirst(dateRange, "last", "prev")))
    ELSE Spread(DataWith(dateRange), data)

\* getCacheKey( type, identifier, datapoint, data ): the datapoint (standing for
\* type, identifier and datapoint) with the canonical form of the options.
getCacheKey(datapoint, data) == <<datapoint, data>>

\* error.data of an error payload: absent, or the reason (the empty string
\* when there is none) and whether a reconnectURL is given.
ErrorData(reason, reconnectURL) ==
    Some([reason |-> reason, reconnectURL |-> reconnectURL])
ForbiddenData == ErrorData("forbidden", FALSE)

\* A successful per-key result of network call number ver, and an error
\* payload, which the service gives with the reason "forbidden".
OkResult(key, ver) ==
    [isError |-> FALSE, key |-> key, ver |-> ver, data |-> Undefined]
ErrResult(key, ver) ==
    [isError |-> TRUE, key |-> key, ver |-> ver, data |-> ForbiddenData]

\* isWPError( result )
isWPError(result) == result.isError

----------------------------------------------------------------------------
(* Cache store *)

\* getCache( key, maxAge ): the value, or undefined when absent or too old.
getCache(c, t, key, maxAge) ==
    IF key \in DOMAIN c /\ t - c[key].storedAt < maxAge
    THEN Some(c[key].value)
    ELSE Undefined

\* setCache( key, value )
setCache(c, t, key, value) ==
    (key :> [value |-> value, storedAt |-> t]) @@ c

----------------------------------------------------------------------------
(* combinedGet: the pure steps of one call *)

\* A DataRequest as combinedGet holds it: the caller's object, with request.data
\* and request.key filled in by the copy of lines 137-138 (key is Undefined on
\* a request that no call has taken up yet).
Request(id, datapoint, data, priority) ==
    [id |-> id, datapoint |-> datapoint, data |-> data, key |-> Undefined,
     priority |-> priority, maxAge |-> HourMaxAge, callback |-> "function"]

\* const request = requestWithDateRange( originalRequest, dateRange );
\* request.key = getCacheKey( ... );
Normalize(originalRequest) ==
    LET data == requestWithDateRange(originalRequest.data, CurrentDateRangeSlug)
    IN  [originalRequest EXCEPT
            !.data = data,
            !.key = Some(getCacheKey(originalRequest.datapoint, data))]

NormalizeAll(combinedRequest) ==
    [i \in 1..Len(combinedRequest) |-> Normalize(combinedRequest[i])]

\* 'undefined' !== typeof cache
IsCacheHit(c, t, request) ==
    getCache(c, t, request.key[1], request.maxAge) # Undefined

\* The requests of the call answered from the cache, in the order of the list.
CacheHits(c, t, combinedRequest) ==
    SelectSeq(NormalizeAll(combinedRequest), LAMBDA r : IsCacheHit(c, t, r))

\* A variant that queues every request, answered from the cache or not.
CacheMisses_All(c, t, combinedRequest) ==
    NormalizeAll(combinedRequest)

\* dataRequest.push( request ): the queue, before it is sorted.
CacheMisses(c, t, combinedRequest) ==
    SelectSeq(NormalizeAll(combinedRequest), LAMBDA r : ~IsCacheHit(c, t, r))

\* The defined priorities occurring in a list.
Priorities(list) ==
    {list[i].priority[1] : i \in {j \in 1..Len(list) : list[j].priority # Undefined}}

Least(S) == CHOOSE m \in S : \A n \in S : m <= n

RECURSIVE AscendingByPriority(_, _)
AscendingByPriority(list, ps) ==
    IF ps = {} THEN <<>>
    ELSE SelectSeq(list, LAMBDA r : r.priority = Some(Least(ps)))
            \o AscendingByPriority(list, ps \ {Least(ps)})

\* A variant that leaves the queue in the order submitted.
sortBy_Unsorted(list) == list

\* sortBy( dataRequest, 'priority' ) of lodash: ascending and stable, the
\* requests without a priority last.
sortBy(list) ==
    AscendingByPriority(list, Priorities(list))
        \o SelectSeq(list, LAMBDA r : r.priority = Undefined)

\* request.priority < 10 (false for an undefined priority)
PriorityBelow10(request) ==
    request.priority # Undefined /\ request.priority[1] < PriorityThreshold

\* 10 <= request.priority (false for an undefined priority)
PriorityAtLeast10(request) ==
    request.priority # Undefined /\ PriorityThreshold <= request.priority[1]

\* !! dataRequest.find( ( request ) => request.priority < 10 )
noLowPriorityRequests(dataRequest) ==
    \E i \in 1..Len(dataRequest) : PriorityBelow10(dataRequest[i])

\* A variant that defers nothing.
IsDeferred_Never(secondaryRequest, request, noLow) ==
    FALSE

\* ! secondaryRequest && 10 <= request.priority && noLowPriorityRequests
IsDeferred(secondaryRequest, request, noLow) ==
    ~secondaryRequest /\ PriorityAtLeast10(request) /\ noLow

\* The loop of lines 162-172.  Its three results are stated one by one; the
\* index lists of keyIndexesMap are put together by halves of the queue, which
\* gives what the loop builds from left to right because the indexes it
\* pushes ascend.  Indexes count from 1.

\* deferredRequests.push( request )
deferredRequests(dataRequest, secondaryRequest) ==
    LET noLow == noLowPriorityRequests(dataRequest)
    IN  SelectSeq(dataRequest, LAMBDA r : IsDeferred(secondaryRequest, r, noLow))

NoIndexes == [k \in {} |-> <<>>]

\* Two index maps joined: the lists of a key that both hold are concatenated.
JoinIndexes(a, b) ==
    [k \in DOMAIN a \cap DOMAIN b |-> a[k] \o b[k]] @@ a @@ b

\* keyIndexesMap over dataRequest[lo..hi], noLow being noLowPriorityRequests.
RECURSIVE IndexesBetween(_, _, _, _, _)
IndexesBetween(dataRequest, secondaryRequest, noLow, lo, hi) ==
    IF lo > hi THEN NoIndexes
    ELSE IF lo = hi
    THEN IF IsDeferred(secondaryRequest, dataRequest[lo], noLow)
         THEN NoIndexes
         ELSE dataRequest[lo].key[1] :> <<lo>>
    ELSE JoinIndexes(
            IndexesBetween(dataRequest, secondaryRequest, noLow,
                           lo, (lo + hi) \div 2),
            IndexesBetween(dataRequest, secondaryRequest, noLow,
                           (lo + hi) \div 2 + 1, hi))

\* keyIndexesMap[ request.key ] = [ index ]; keyIndexesMap[ request.key ].push( index )
keyIndexesMap(dataRequest, secondaryRequest) ==
    IndexesBetween(dataRequest, secondaryRequest,
                   noLowPriorityRequests(dataRequest), 1, Len(dataRequest))

\* toRequest.push( request ): the request that opens the index list of its key.
toRequest(dataRequest, map) ==
    LET firsts == SelectSeq([i \in 1..Len(dataRequest) |-> i],
                    LAMBDA i : /\ dataRequest[i].key[1] \in DOMAIN map
                               /\ map[dataRequest[i].key[1]][1] = i)
    IN  [k \in 1..Len(firsts) |-> dataRequest[firsts[k]]]

\* A variant that sends one request more than the chunk size.
currentRequest_OneMore(toSend) ==
    SubSeq(toSend, 1,
           IF Len(toSend) < maxDatapointsPerRequest + 1
           THEN Len(toSend) ELSE maxDatapointsPerRequest + 1)

\* toRequest.slice( 0, maxDatapointsPerRequest )
currentRequest(toSend) ==
    SubSeq(toSend, 1,
           IF Len(toSend) < maxDatapointsPerRequest
           THEN Len(toSend) ELSE maxDatapointsPerRequest)

\* A variant that passes on the deferred requests only.
remainingDatapoints_DeferredOnly(toSend, deferred) ==
    deferred

\* A variant that passes the chunk being sent on to the next round as well.
remainingDatapoints_WithChunk(toSend, deferred) ==
    toSend \o deferred

\* toRequest.slice( maxDatapointsPerRequest ).concat( deferredRequests )
remainingDatapoints(toSend, deferred) ==
    SubSeq(toSend, maxDatapointsPerRequest + 1, Len(toSend)) \o deferred

\* A variant that decrements the counter before it compares it.
SchedulesRound_PreDecrement(remaining, counter) ==
    0 < Len(remaining) /\ 0 < counter - 1

\* 0 < remainingDatapoints.length && 0 < this.maxRequests--
SchedulesRound(remaining, counter) ==
    0 < Len(remaining) /\ 0 < counter

\* A variant that leaves the counter as the decrement left it.
CounterAfter_NoReset(remaining, counter) ==
    IF SchedulesRound(remaining, counter) THEN counter - 1 ELSE counter - 1

\* this.maxRequests after lines 187-193: the round is scheduled with the
\* counter decremented, otherwise the counter is back at 10.
CounterAfter(remaining, counter) ==
    IF SchedulesRound(remaining, counter) THEN counter - 1 ELSE InitialMaxRequests

----------------------------------------------------------------------------
(* Timers *)

\* A pending setTimeout callback: a cache-hit resolution (lines 142-144) or
\* a secondary round (lines 188-190).  due is the time left, in ms.  A round
\* remembers which of its requests the call that scheduled it had deferred.
ResolveTimer(due, request, value) ==
    [due |-> due, kind |-> "resolve", request |-> Some(request),
     value |-> Some(value), remaining |-> <<>>, deferred |-> <<>>]

RoundTimer(due, remaining, deferred) ==
    [due |-> due, kind |-> "combinedGet", request |-> Undefined,
     value |-> Undefined, remaining |-> remaining, deferred |-> deferred]

\* setTimeout: timers fire by due time, and in the order set when due together.
setTimeout(ts, timer) ==
    SelectSeq(ts, LAMBDA x : x.due <= timer.due)
        \o <<timer>>
        \o SelectSeq(ts, LAMBDA x : x.due > timer.due)

\* A variant with the same delay for every cache hit.
cacheDelay_Flat(k) == CacheDelayStep

\* cacheDelay of the k-th cache hit of a call: 25, 50, 75, ...
cacheDelay(k) == CacheDelayStep * k

\* The setTimeout calls of the loop of lines 136-150, from the k-th hit on.
RECURSIVE ScheduleHits(_, _, _, _, _)
ScheduleHits(ts, c, t, hits, k) ==
    IF k > Len(hits) THEN ts
    ELSE ScheduleHits(
            setTimeout(ts, ResolveTimer(cacheDelay(k), hits[k],
                getCache(c, t, hits[k].key[1], hits[k].maxAge)[1])),
            c, t, hits, k + 1)

----------------------------------------------------------------------------
(* handleWPError and the notification filters *)

\* A handler of a hook: the callback of a notification filter fills the
\* filter with a component, that of the count filter adds a number of notices.
FillsWith(component) == [component |-> component, adds |-> 0]
AddsToCount(addedNoticeCount) == [component |-> "", adds |-> addedNoticeCount]

\* addFilter( hookName, namespace, callback ): the handler is added after the
\* handlers of the hook that are there, whatever their namespace.
addFilter(fs, hookName, namespace, callback) ==
    Append(fs, [hookName |-> hookName, namespace |-> namespace,
                callback |-> callback])

\* removeFilter( hookName, namespace ): every handler of the hook with the
\* namespace is removed.
removeFilter(fs, hookName, namespace) ==
    SelectSeq(fs, LAMBDA h : ~(h.hookName = hookName /\ h.namespace = namespace))

\* addFilter( 'googlesitekit.ErrorNotification',
\*            'googlesitekit.AuthNotification', fillFilterWithComponent( c ), 1 )
AddNotice(fs, applies, component) ==
    IF applies
    THEN addFilter(fs, "googlesitekit.ErrorNotification",
                   "googlesitekit.AuthNotification", FillsWith(component))
    ELSE fs

\* A variant that looks at the reason only.
NothingToNotify_ReasonOnly(data) ==
    \/ data = Undefined
    \/ data[1].reason = ""

\* ! data || ( ! data.reason && ! data.reconnectURL )
NothingToNotify(data) ==
    \/ data = Undefined
    \/ data[1].reason = "" /\ ~data[1].reconnectURL

\* handleWPError( { method, datapoint, type, identifier, error } ): the
\* filters after the call.
handleWPError(fs, error) ==
    IF NothingToNotify(error.data) THEN fs
    ELSE
        LET data == error.data[1]
            scopes == AddNotice(fs,
                        data.reason \in {"authError", "insufficientPermissions"},
                        "DashboardAuthScopesAlert")
            permission == AddNotice(scopes, data.reason = "forbidden",
                                    "DashboardPermissionAlert")
            reconnect == AddNotice(permission, data.reconnectURL, "AuthError")
            addedNoticeCount == Len(reconnect) - Len(fs)
        IN  IF addedNoticeCount > 0
            THEN addFilter(reconnect, "googlesitekit.TotalNotifications",
                           "googlesitekit.AuthCountIncrease",
                           AddsToCount(addedNoticeCount))
            ELSE reconnect

\* applyFilters( 'googlesitekit.TotalNotifications', count ): the first count
\* handler removes the handlers of its namespace (lines 280-283), so no other
\* of them runs, and returns count + addedNoticeCount.
CountHandlers(fs) ==
    SelectSeq(fs, LAMBDA h : h.hookName = "googlesitekit.TotalNotifications")
TotalNotifications(fs, count) ==
    IF CountHandlers(fs) = <<>> THEN count
    ELSE count + Head(CountHandlers(fs)).callback.adds
AfterTotalNotifications(fs) ==
    IF CountHandlers(fs) = <<>> THEN fs
    ELSE removeFilter(fs, "googlesitekit.TotalNotifications",
                      "googlesitekit.AuthCountIncrease")

----------------------------------------------------------------------------
(* The response handler *)

\* resolve( request, result ): the callback is invoked with the result.
resolve(d, request, result) ==
    IF request.callback \in {"function", "throws"}
    THEN [d EXCEPT ![request.id] = Append(@, result)]
    ELSE d

\* resolve has no try: what the callback throws, resolve throws.
resolveThrows(request) == request.callback = "throws"

\* if ( ! isError ) { setCache( request.key, result ); }
CachesResult(isError) == ~isError

\* A variant that reads the first index of the array.
ArrayProperty_First(dataRequest, indexes) ==
    Some(dataRequest[indexes[1]])

\* dataRequest[ keyIndexesMap[ key ] ]: an array used as a property name is
\* joined with commas, so only a one-element array names an element.
ArrayProperty(dataRequest, indexes) ==
    IF Len(indexes) = 1 THEN Some(dataRequest[indexes[1]]) ELSE Undefined

\* each( keyIndexesMap[ key ], ( index ) => { ... } ), from the n-th index on.
RECURSIVE ResolveEach(_, _, _, _, _, _)
ResolveEach(dataRequest, indexes, n, result, t, acc) ==
    IF n > Len(indexes) \/ acc.threw THEN acc
    ELSE
        LET request == dataRequest[indexes[n]]
            cached ==
                IF CachesResult(isWPError(result))
                THEN setCache(acc.cache, t, request.key[1], result)
                ELSE acc.cache
        IN  ResolveEach(dataRequest, indexes, n + 1, result, t,
                [acc EXCEPT !.cache = cached,
                            !.delivered = resolve(@, request, result),
                            !.threw = resolveThrows(request)])

\* if ( 0 === remainingDatapoints.length ) doAction( ..., 'api' ), which a
\* throw in the loop before it leaves out.
SignalsApi(call, acc) ==
    IF ~acc.threw /\ call.remainingLength = 0
    THEN [acc EXCEPT !.dataLoaded = Append(@, "api")]
    ELSE acc

\* A variant that throws on a key it does not know.
UnknownKey_Throws(acc) == [acc EXCEPT !.threw = TRUE]

\* if ( ! keyIndexesMap[ key ] ) { console.error( 'data_error', ... ); return; }
UnknownKey(acc) == acc

\* each( results, ( result, key ) => { ... } ), from the i-th entry on.  A
\* TypeError (the destructuring of undefined on line 209) leaves the loop
\* and is caught by the catch of line 237.
RECURSIVE ProcessResults(_, _, _, _, _)
ProcessResults(call, results, i, t, acc) ==
    IF i > Len(results) \/ acc.threw THEN acc
    ELSE
        LET key == results[i].key
            result == results[i].result
        IN  IF key \notin DOMAIN call.keyIndexesMap
            THEN ProcessResults(call, results, i + 1, t, UnknownKey(acc))
            ELSE
                LET isError == isWPError(result)
                    indexes == call.keyIndexesMap[key]
                    first == ArrayProperty(call.dataRequest, indexes)
                IN  IF isError /\ first = Undefined
                    THEN [acc EXCEPT !.threw = TRUE]
                    ELSE
                        LET classified ==
                                IF isError
                                THEN [acc EXCEPT
                                        !.handled = Append(@,
                                            [datapoint |-> first[1].datapoint,
                                             error |-> result]),
                                        !.filters = handleWPError(@, result)]
                                ELSE acc
                        IN  ProcessResults(call, results, i + 1, t,
                                SignalsApi(call,
                                    ResolveEach(call.dataRequest, indexes, 1,
                                                result, t, classified)))

\* The REST backend: one result per requested key, in the order requested.
ServerResult(errs, key, ver) ==
    IF key \in errs THEN ErrResult(key, ver) ELSE OkResult(key, ver)

Response(errs, call) ==
    [i \in 1..Len(call.currentRequest) |->
        [key |-> call.currentRequest[i].key[1],
         result |-> ServerResult(errs, call.currentRequest[i].key[1], call.seq)]]

\* A key that no request has, and the response of a service that puts a
\* result for it before the results requested.
StrayKey == getCacheKey(0, NoData)
ResponseWith(stray, errs, call) ==
    IF stray
    THEN <<[key |-> StrayKey, result |-> OkResult(StrayKey, call.seq)]>>
         \o Response(errs, call)
    ELSE Response(errs, call)

----------------------------------------------------------------------------
(* Actions *)

Ids(list) == [i \in 1..Len(list) |-> list[i].id]

NoRun ==
    [ran |-> FALSE, secondaryRequest |-> FALSE, combinedRequest |-> <<>>,
     hits |-> <<>>, dataRequest |-> <<>>, toRequest |-> <<>>,
     deferredRequests |-> <<>>, currentRequest |-> <<>>,
     remainingDatapoints |-> <<>>, counterBefore |-> InitialMaxRequests,
     scheduled |-> FALSE, fetched |-> FALSE, hitTimers |-> <<>>]

\* A variant that goes on to the network call with nothing to request.
ReturnsEarly_Never(current, remaining) == FALSE

\* if ( 0 === currentRequest.length && 0 === remainingDatapoints.length )
\* { doAction( 'googlesitekit.dataLoaded', 'cache' ); return; }
ReturnsEarly(current, remaining) == Len(current) = 0 /\ Len(remaining) = 0

\* One run of combinedGet( combinedRequest, secondaryRequest ), the timers
\* pending at the call being ts.
combinedGet(combinedRequest, secondaryRequest, ts) ==
    \E hits \in {CacheHits(cache, now, combinedRequest)} :
    \E dataRequest \in {sortBy(CacheMisses(cache, now, combinedRequest))} :
    \E map \in {keyIndexesMap(dataRequest, secondaryRequest)} :
    \E parts \in {[toRequest |-> toRequest(dataRequest, map),
                   deferredRequests |-> deferredRequests(dataRequest, secondaryRequest),
                   keyIndexesMap |-> map]} :
    \E current \in {currentRequest(parts.toRequest)} :
    \E remaining \in {remainingDatapoints(parts.toRequest, parts.deferredRequests)} :
    LET
        withHits == ScheduleHits(ts, cache, now, hits, 1)
        returnsEarly == ReturnsEarly(current, remaining)
        schedules == ~returnsEarly /\ SchedulesRound(remaining, maxRequests)
    IN  /\ timers' =
            IF schedules
            THEN setTimeout(withHits,
                    RoundTimer(RoundDelay, remaining, Ids(parts.deferredRequests)))
            ELSE withHits
        /\ maxRequests' =
            IF returnsEarly THEN maxRequests
            ELSE CounterAfter(remaining, maxRequests)
        /\ inflight' =
            IF returnsEarly THEN inflight
            ELSE Append(inflight,
                    [currentRequest |-> current,
                     dataRequest |-> dataRequest,
                     keyIndexesMap |-> parts.keyIndexesMap,
                     remainingLength |-> Len(remaining),
                     seq |-> Len(netLog) + 1])
        /\ netLog' =
            IF returnsEarly THEN netLog
            ELSE Append(netLog,
                    [request |-> Ids(current),
                     secondaryRequest |-> secondaryRequest,
                     remaining |-> Ids(remaining),
                     scheduled |-> schedules,
                     rejected |-> FALSE])
        /\ last' =
            [ran |-> TRUE, secondaryRequest |-> secondaryRequest,
             combinedRequest |-> Ids(combinedRequest),
             hits |-> Ids(hits), dataRequest |-> Ids(dataRequest),
             toRequest |-> Ids(parts.toRequest),
             deferredRequests |-> Ids(parts.deferredRequests),
             currentRequest |-> Ids(current),
             remainingDatapoints |-> Ids(remaining),
             counterBefore |-> maxRequests,
             scheduled |-> schedules, fetched |-> ~returnsEarly,
             hitTimers |-> [k \in 1..Len(hits) |->
                             [due |-> cacheDelay(k), id |-> hits[k].id,
                              value |-> getCache(cache, now, hits[k].key[1],
                                                 hits[k].maxAge)[1]]]]
        /\ dataLoaded' =
            IF returnsEarly THEN Append(dataLoaded, "cache") ELSE dataLoaded
        /\ UNCHANGED <<cache, now, requests, delivered, handled, filters, total,
                       rejects, writes, serverErr, strays, copies, ticks>>

\* The timers after ms milliseconds have passed.
Elapsed(ts, ms) == [i \in 1..Len(ts) |-> [ts[i] EXCEPT !.due = @ - ms]]

\* The times, on the 25 ms grid, that may pass before the first timer fires.
Waits(ts) ==
    IF ts = <<>> THEN {0}
    ELSE {ms \in 0..Head(ts).due : ms % CacheDelayStep = 0}

\* The page calls combinedGet with its next list of requests, at any time
\* before or after the pending timers.
Invoke ==
    /\ todo # <<>>
    /\ Len(inflight) < MaxInFlight
    /\ \E ms \in Waits(timers) :
        combinedGet(Head(todo), FALSE, Elapsed(timers, ms))
    /\ todo' = Tail(todo)
    /\ calls' = calls + 1

\* The next timer fires: a cache hit is resolved (line 143), or the
\* secondary round runs (line 189).
Fire ==
    /\ timers # <<>>
    /\ LET timer == Head(timers)
           rest == Elapsed(Tail(timers), timer.due)
       IN  IF timer.kind = "resolve"
           THEN /\ delivered' = resolve(delivered, timer.request[1], timer.value[1])
                /\ timers' = rest
                /\ UNCHANGED <<maxRequests, cache, now, inflight, requests,
                               handled, netLog, last, dataLoaded, filters,
                               total, rejects, writes, serverErr, strays, copies, ticks>>
           ELSE /\ Len(inflight) < MaxInFlight
                /\ combinedGet(timer.remaining, TRUE, rest)
    /\ UNCHANGED <<todo, calls>>

\* The apiFetch calls pending, the i-th left out.
Without(calls_, i) == SubSeq(calls_, 1, i - 1) \o SubSeq(calls_, i + 1, Len(calls_))

\* A variant that sends the chunk again after the pause of a round.
GivesUp_Resend(ts, call) ==
    setTimeout(ts, RoundTimer(RoundDelay, call.currentRequest, <<>>))

\* .catch( ( err ) => { console.warn( 'Error caught during combinedGet', err ) } ):
\* "Handle the error and give up trying", no timer is set.
GivesUp(ts, call) == ts

\* The promise of an apiFetch call settles.  Resolved, the then handler of
\* lines 200-235 runs over the results, and the catch of lines 237-240 takes
\* what it throws; rejected, the catch alone runs, which logs a warning.
Respond ==
    \E i \in 1..Len(inflight) :
        \E call \in {inflight[i]} :
        \E rejected \in {r \in BOOLEAN : r => rejects > 0} :
        \E done \in {IF rejected
                      THEN [cache |-> cache, delivered |-> delivered,
                            handled |-> handled, filters |-> filters,
                            dataLoaded |-> dataLoaded, threw |-> FALSE]
                      ELSE ProcessResults(call,
                            ResponseWith(strays, serverErr, call), 1, now,
                            [cache |-> cache, delivered |-> delivered,
                             handled |-> handled, filters |-> filters,
                             dataLoaded |-> dataLoaded, threw |-> FALSE])} :
            /\ cache' = done.cache
            /\ delivered' = done.delivered
            /\ handled' = done.handled
            /\ filters' = done.filters
            /\ dataLoaded' = done.dataLoaded
            /\ rejects' = IF rejected THEN rejects - 1 ELSE rejects
            /\ timers' = IF rejected THEN GivesUp(timers, call) ELSE timers
            /\ netLog' = IF rejected
                          THEN [netLog EXCEPT ![call.seq].rejected = TRUE]
                          ELSE netLog
            /\ inflight' = SubSeq(inflight, 1, i - 1)
                            \o SubSeq(inflight, i + 1, Len(inflight))
            /\ UNCHANGED <<maxRequests, now, requests, last, todo, calls,
                           total, writes, serverErr, strays, copies, ticks>>

\* An hour passes after a call of the page, with nothing pending.
Tick ==
    /\ last.ran
    /\ timers = <<>>
    /\ inflight = <<>>
    /\ ticks < MaxTicks
    /\ now' = now + HourMaxAge
    /\ ticks' = ticks + 1
    /\ UNCHANGED <<maxRequests, cache, timers, inflight, requests, delivered,
                   handled, netLog, last, todo, calls, dataLoaded, filters,
                   total, rejects, writes, serverErr, strays, copies>>

Next == Invoke \/ Fire \/ Respond \/ Tick

----------------------------------------------------------------------------
(* Initial states: the request lists of the page, the cache and the service *)

SmallDatapoints == {1}
SmallData == {NoData, DataWith(Placeholder)}
SmallPriorities == {Some(1), Some(10)}
SmallShapes ==
    [datapoint : SmallDatapoints, data : SmallData, priority : SmallPriorities]

KeyOfShape(shape) ==
    getCacheKey(shape.datapoint,
                requestWithDateRange(shape.data, CurrentDateRangeSlug))

\* The keys of the small requests, and the one the service may fail for.
SmallKeys == {KeyOfShape(s) : s \in SmallShapes}
FailingKeys == {getCacheKey(1, DataWith(CurrentDateRangeSlug))}

\* The requests of the page, in the order submitted, numbered from 1.
Numbered(shapes) ==
    [i \in 1..Len(shapes) |->
        Request(i, shapes[i].datapoint, shapes[i].data, shapes[i].priority)]

\* No call of requestWithDateRange made.
NoCopies == [dateRange |-> CurrentDateRangeSlug, made |-> <<>>]

\* No dataAPI.set call to make, none pending, none settled.
NoWrites == [todo |-> 0, pending |-> <<>>, settled |-> <<>>]

\* A cache entry written before the page was loaded.
StoredEntry(key, t) == [value |-> OkResult(key, 0), storedAt |-> t]

InitCommon ==
    /\ now = 4000
    /\ maxRequests = InitialMaxRequests
    /\ timers = <<>>
    /\ inflight = <<>>
    /\ delivered = [i \in 1..Len(requests) |-> <<>>]
    /\ handled = <<>>
    /\ netLog = <<>>
    /\ last = NoRun
    /\ calls = 0
    /\ dataLoaded = <<>>
    /\ filters = <<>>
    /\ total = <<>>
    /\ ticks = 0

\* The page submits up to MaxLen requests in one call or in two; any of the
\* keys may be in the cache, fresh (100 s old) or, for the failing key, stale
\* (4000 s old), and the service may fail for the failing key.
Init ==
    /\ \E n \in 0..MaxLen : \E shapes \in [1..n -> SmallShapes] :
        /\ requests = Numbered(shapes)
        /\ \E cut \in 0..n :
            todo = IF cut = n THEN <<requests>>
                   ELSE <<SubSeq(requests, 1, cut), SubSeq(requests, cut + 1, n)>>
    /\ \E stored \in SUBSET SmallKeys :
        \E stale \in SUBSET (stored \cap FailingKeys) :
            cache = [k \in stored |->
                        StoredEntry(k, IF k \in stale THEN 0 ELSE 3900)]
    /\ serverErr \in SUBSET FailingKeys
    /\ rejects = 0
    /\ strays = FALSE
    /\ copies = NoCopies
    /\ writes = NoWrites
    /\ InitCommon

Spec == Init /\ [][Next]_vars

----------------------------------------------------------------------------
(* Long lists: one call with many requests, an empty cache, no failing key *)

\* high requests of priority 1 then low requests of priority 10, all with
\* different datapoints, then the last dups of them once more, at priority
\* 10.  The list is all of priority 10 (up to two chunks and one request), one
\* request of priority 1 before the others, or all of priority 1.
BulkShapes(high, low, dups) ==
    [i \in 1..(high + low + dups) |->
        LET j == IF i <= high + low THEN i ELSE i - dups
        IN  [datapoint |-> j, data |-> NoData,
             priority |-> IF i <= high THEN Some(1) ELSE Some(10)]]

\* The lengths of the long lists: up to two chunks and one request, and the
\* lengths from which the ten secondary rounds are used up.
BulkSizes ==
    {n \in 1..MaxBulk :
        \/ n <= 2 * maxDatapointsPerRequest + 1
        \/ n >= maxDatapointsPerRequest * InitialMaxRequests}

InitBulk ==
    /\ \E n \in BulkSizes : \E high \in {0, 1, n} : \E dups \in 0..MaxDups :
        /\ dups <= n
        /\ high = 0 => n <= 2 * maxDatapointsPerRequest + 1
        /\ requests = Numbered(BulkShapes(high, n - high, dups))
        /\ todo = <<requests>>
    /\ cache = [k \in {} |-> Undefined]
    /\ serverErr = {}
    /\ rejects = 0
    /\ strays = FALSE
    /\ copies = NoCopies
    /\ writes = NoWrites
    /\ InitCommon

SpecBulk == InitBulk /\ [][Next]_vars

----------------------------------------------------------------------------
(* Faults: a callback that throws, a network call that rejects *)

\* The requests, the callback of the n-th one throwing (of none for n = 0).
WithThrower(reqs, n) ==
    [i \in 1..Len(reqs) |->
        IF i = n THEN [reqs[i] EXCEPT !.callback = "throws"] ELSE reqs[i]]

\* The page submits up to MaxLen requests in one call, the cache is empty and
\* the service fails for no key; the callback of one request may throw, up
\* to MaxRejects network calls reject, and the service may add a key that
\* nobody requested to its responses.
InitFaults ==
    /\ \E n \in 1..MaxLen : \E shapes \in [1..n -> SmallShapes] :
        \E thrower \in 0..n :
            /\ requests = WithThrower(Numbered(shapes), thrower)
            /\ todo = <<requests>>
    /\ cache = [k \in {} |-> Undefined]
    /\ serverErr = {}
    /\ rejects \in 0..MaxRejects
    /\ strays \in BOOLEAN
    /\ copies = NoCopies
    /\ writes = NoWrites
    /\ InitCommon

SpecFaults == InitFaults /\ [][Next]_vars

----------------------------------------------------------------------------
(* dataAPI.set and the notification count *)

\* invalidateCacheGroup( type, identifier, datapoint ): the entries of the
\* group are removed, whatever their data options.
invalidateCacheGroup(c, datapoint) ==
    [key \in {k \in DOMAIN c : k[1] # datapoint} |-> c[key]]

\* A variant that leaves the cache as it is.
SetThen_KeepsCache(c, datapoint) == c

\* .then( ( response ) => { dataAPI.invalidateCacheGroup( type, identifier,
\* datapoint ); return new Promise( ... resolve( response ) ) } ): the cache
\* after the handler.
SetThen(c, datapoint) == invalidateCacheGroup(c, datapoint)

\* What the promise returned by set settles to.
Settled(datapoint, promise, value) ==
    [datapoint |-> datapoint, promise |-> promise, value |-> value]

\* The errors a write may fail with: with no data, or with data that may
\* hold a reason and a reconnectURL.
WriteReasons == {"", "authError", "insufficientPermissions", "forbidden", "notFound"}
WriteErrors ==
    {[isError |-> TRUE, data |-> Undefined]}
    \cup {[isError |-> TRUE, data |-> ErrorData(reason, url)] :
            reason \in WriteReasons, url \in BOOLEAN}

\* The datapoints written to.
WriteDatapoints == {1, 2}

\* dataAPI.set( type, identifier, datapoint, data ): the POST is issued.
Set ==
    /\ writes.todo > 0
    /\ \E datapoint \in WriteDatapoints :
        writes' = [writes EXCEPT !.todo = @ - 1,
                                 !.pending = Append(@, datapoint)]
    /\ UNCHANGED <<maxRequests, cache, now, timers, inflight, requests,
                   delivered, handled, netLog, last, todo, calls, dataLoaded,
                   filters, total, rejects, serverErr, strays, copies, ticks>>

\* The POST of a set call settles: resolved, the then handler of lines
\* 393-398 runs; rejected, the catch handler of lines 399-403.
SetSettles ==
    \E i \in 1..Len(writes.pending) :
        \E datapoint \in {writes.pending[i]} :
            \/ /\ cache' = SetThen(cache, datapoint)
               /\ writes' = [writes EXCEPT
                    !.pending = Without(@, i),
                    !.settled = Append(@, Settled(datapoint, "resolved",
                                                  OkResult(datapoint, 0)))]
               /\ UNCHANGED <<handled, filters>>
            \/ \E error \in WriteErrors :
                /\ handled' = Append(handled,
                                [datapoint |-> datapoint, error |-> error])
                /\ filters' = handleWPError(filters, error)
                /\ writes' = [writes EXCEPT
                    !.pending = Without(@, i),
                    !.settled = Append(@, Settled(datapoint, "rejected", error))]
                /\ UNCHANGED cache
    /\ UNCHANGED <<maxRequests, now, timers, inflight, requests, delivered,
                   netLog, last, todo, calls, dataLoaded, total, rejects,
                   serverErr, strays, copies, ticks>>

\* The page computes its notification count: the handlers of
\* 'googlesitekit.TotalNotifications' are applied to the count of the other
\* notifications, here 0.
ApplyTotalNotifications ==
    /\ Len(total) < MaxCounts
    /\ total' = Append(total, TotalNotifications(filters, 0))
    /\ filters' = AfterTotalNotifications(filters)
    /\ UNCHANGED <<maxRequests, cache, now, timers, inflight, requests,
                   delivered, handled, netLog, last, todo, calls, dataLoaded,
                   rejects, writes, serverErr, strays, copies, ticks>>

NextWrites == Set \/ SetSettles \/ ApplyTotalNotifications

\* The keys of the two datapoints, with and without data options.
WriteKeys == {getCacheKey(d, data) : d \in WriteDatapoints, data \in SmallData}

\* The page makes up to MaxWrites calls of set and no call of combinedGet; the
\* cache holds entries of both datapoints, or of one only.
InitWrites ==
    /\ requests = <<>>
    /\ todo = <<>>
    /\ \E d \in WriteDatapoints \cup {0} :
        cache = [k \in {key \in WriteKeys : key[1] # d} |-> StoredEntry(k, 3900)]
    /\ serverErr = {}
    /\ rejects = 0
    /\ strays = FALSE
    /\ copies = NoCopies
    /\ writes = [NoWrites EXCEPT !.todo = MaxWrites]
    /\ InitCommon

SpecWrites == InitWrites /\ [][NextWrites]_vars

----------------------------------------------------------------------------
(* requestWithDateRange on its own *)

\* The slugs getCurrentDateRangeSlug() gives.
DateRangeSlugs ==
    {<<"last", "7", "days">>, <<"last", "28", "days">>, <<"last", "90", "days">>}

\* The data options of a caller: a dateRange of its own, the placeholder or
\* none, with or without another option.
CallerDateRanges == {Placeholder, <<"last", "7", "days">>, <<"prev", "28", "days">>}
OtherOptions == {NoData, [o \in {"url"} |-> <<"/page">>]}
CallerData ==
    {Spread(dr, other) :
        dr \in {NoData} \cup {DataWith(v) : v \in CallerDateRanges},
        other \in OtherOptions}

\* const request = { data: {}, ...originalRequest }; ...; return request: the
\* copy, with the data of lines 64-73.
CopyOf(originalRequest, dateRange) ==
    [originalRequest EXCEPT !.data = requestWithDateRange(@, dateRange)]

\* requestWithDateRange is called with the next request of the caller.
CopyRequest ==
    /\ Len(copies.made) < Len(requests)
    /\ copies' = [copies EXCEPT
            !.made = Append(@, CopyOf(requests[Len(copies.made) + 1],
                                     copies.dateRange))]
    /\ UNCHANGED <<maxRequests, cache, now, timers, inflight, requests,
                   delivered, handled, netLog, last, todo, calls, dataLoaded,
                   filters, total, rejects, writes, serverErr, strays, ticks>>

NextDateRange == CopyRequest

\* Up to MaxCopies requests of a caller, with any of the data options, and
\* any of the date ranges selected.
InitDateRange ==
    /\ \E n \in 1..MaxCopies : \E data \in [1..n -> CallerData] :
        requests = [i \in 1..n |-> Request(i, 1, data[i], Some(1))]
    /\ \E slug \in DateRangeSlugs : copies = [NoCopies EXCEPT !.dateRange = slug]
    /\ todo = <<>>
    /\ cache = [k \in {} |-> Undefined]
    /\ serverErr = {}
    /\ rejects = 0
    /\ strays = FALSE
    /\ writes = NoWrites
    /\ InitCommon

SpecDateRange == InitDateRange /\ [][NextDateRange]_vars

----------------------------------------------------------------------------
(* Two invocations: a long list, and a short one while its chain runs *)

\* The lengths of a list whose chain takes the counter down to 0 and that is
\* resolved in full when it runs alone.
ChainSizes == {maxDatapointsPerRequest * InitialMaxRequests + 1, MaxBulk - 1}

\* The short list: two requests of keys of their own, of any priorities.
ShortShapes(first, priorities) ==
    [i \in 1..Len(priorities) |->
        [datapoint |-> first + i, data |-> NoData, priority |-> priorities[i]]]

\* The page submits a long list of priority 1 in one call and a short list in
\* a second call, made at any time; the cache is empty and no key fails.
InitInterleave ==
    /\ \E n \in ChainSizes : \E priorities \in [1..2 -> SmallPriorities] :
        /\ requests = Numbered(BulkShapes(n, 0, 0) \o ShortShapes(n, priorities))
        /\ todo = <<SubSeq(requests, 1, n), SubSeq(requests, n + 1, n + 2)>>
    /\ cache = [k \in {} |-> Undefined]
    /\ serverErr = {}
    /\ rejects = 0
    /\ strays = FALSE
    /\ copies = NoCopies
    /\ writes = NoWrites
    /\ InitCommon

SpecInterleave == InitInterleave /\ [][Next]_vars

----------------------------------------------------------------------------
(* Mixed priorities: one call, requests with and without a priority *)

\* The priorities of a list, in the order they recur along it; the last has
\* one request of priority 1 and then requests of priority 10 only.
OrderPalettes ==
    {<<Some(1), Some(5), Undefined>>,
     <<Some(10), Some(1), Some(20), Undefined, Some(5)>>,
     <<Some(20), Some(10), Undefined>>,
     <<Some(10), Some(1), Some(10), Some(10), Some(10), Some(10), Some(10),
       Some(10), Some(10), Some(10), Some(10), Some(10), Some(10), Some(10)>>}

\* n requests of different keys, or with the last one repeating the key of
\* the one before it, the priorities taken from the palette from offset on.
OrderShapes(n, palette, offset, repeats) ==
    [i \in 1..n |->
        [datapoint |-> IF repeats /\ i = n /\ n > 1 THEN n - 1 ELSE i,
         data |-> NoData,
         priority |-> palette[((offset + i - 1) % Len(palette)) + 1]]]

InitOrder ==
    /\ \E n \in 1..MaxOrder : \E palette \in OrderPalettes :
        \E offset \in 0..2 : \E repeats \in BOOLEAN :
            /\ requests = Numbered(OrderShapes(n, palette, offset, repeats))
            /\ todo = <<requests>>
    /\ cache = [k \in {} |-> Undefined]
    /\ serverErr = {}
    /\ rejects = 0
    /\ strays = FALSE
    /\ copies = NoCopies
    /\ writes = NoWrites
    /\ InitCommon

SpecOrder == InitOrder /\ [][Next]_vars

----------------------------------------------------------------------------
(* Vocabulary of the properties *)

RequestIds == 1..Len(requests)
KeyOf(id) == Normalize(requests[id]).key[1]
Range(seq) == {seq[i] : i \in 1..Len(seq)}
KeysOf(ids) == {KeyOf(ids[i]) : i \in 1..Len(ids)}

\* Nothing is pending: every call is made, every timer has fired and every
\* apiFetch call has settled.
Quiescent == todo = <<>> /\ timers = <<>> /\ inflight = <<>>

\* The page has made one call only.
SingleInvocation == todo = <<>> /\ calls = 1

\* No two of the requests share a key.
DistinctKeys == Cardinality({KeyOf(id) : id \in RequestIds}) = Len(requests)

\* The callback of the request was invoked, and with a result of its key.
Resolved(id) ==
    /\ Len(delivered[id]) >= 1
    /\ \A n \in 1..Len(delivered[id]) : delivered[id][n].key = KeyOf(id)

\* The unique keys that the chunks of one call and its ten secondary rounds
\* can carry.
RetryBudget == maxDatapointsPerRequest * (InitialMaxRequests + 1)

----------------------------------------------------------------------------
(* Requests that share a key *)

\* C1, as stated: once the chain of one invocation is over, the service
\* having failed for no key and the unique keys being within the retry
\* budget, every request that shares its key with another request of the
\* invocation has had its callback invoked with a result of that key, as
\* that other request has (the same result, the service answering a key the
\* same way in every call), also when the first request of the key was
\* carried over to a later round.
C1_SharedKeyAllResolved ==
    (/\ Quiescent
     /\ SingleInvocation
     /\ serverErr = {}
     /\ Cardinality({KeyOf(id) : id \in RequestIds}) <= RetryBudget)
    => \A i, j \in RequestIds :
            (i # j /\ KeyOf(i) = KeyOf(j))
            => /\ Resolved(i)
               /\ Resolved(j)

\* C2: across the rounds of its invocation (cache-hit timers, first call,
\* secondary rounds) the callback of a request is invoked at most once, every
\* response carrying only the keys requested in its chunk.
C2_CallbackAtMostOnce ==
    \A id \in RequestIds : Len(delivered[id]) <= 1

\* Two requests of one key, submitted in two calls, were both resolved, one
\* of them by a secondary round, and nothing is pending.
C2_Witness ==
    /\ Quiescent
    /\ calls = 2
    /\ \E n \in 1..Len(netLog) : netLog[n].secondaryRequest
    /\ \E i, j \in RequestIds :
        /\ i # j
        /\ KeyOf(i) = KeyOf(j)
        /\ Len(delivered[i]) = 1
        /\ Len(delivered[j]) = 1

----------------------------------------------------------------------------
(* Long lists and the limit on secondary rounds *)

\* The chunk that a first call with the list sends, nothing being cached.
FirstChunk(combinedRequest) ==
    LET dataRequest == sortBy(NormalizeAll(combinedRequest))
    IN  currentRequest(toRequest(dataRequest, keyIndexesMap(dataRequest, FALSE)))

\* The callback of every request was invoked once with the result of a
\* network call for its key, and the cache holds that result under the key.
AllResolvedAndCached ==
    \A id \in RequestIds :
        /\ Len(delivered[id]) = 1
        /\ ~isWPError(delivered[id][1])
        /\ delivered[id][1].key = KeyOf(id)
        /\ KeyOf(id) \in DOMAIN cache
        /\ cache[KeyOf(id)].value = delivered[id][1]

\* C3, as stated: a single invocation over at most 110 uncached requests of
\* different keys, every network call succeeding and the counter starting at
\* 10, ends with the callback of every request invoked with the result for
\* its key and that result in the cache.
C3_Original ==
    (/\ Quiescent
     /\ SingleInvocation
     /\ DistinctKeys
     /\ Len(requests) <= RetryBudget
     /\ serverErr = {})
    => AllResolvedAndCached

\* C3, amended: a single invocation over uncached requests of different
\* keys, every network call succeeding and the counter starting at 10, ends
\* with the callback of every request invoked with the result for its key
\* and that result in the cache, provided that at most 100 requests are left
\* for the ten secondary rounds once the first call has taken its chunk
\* (which holds none of the requests of priority >= 10 when a request of
\* priority < 10 is present).  The lists of SpecBulk start with nothing
\* cached and the counter at 10.
C3_AllResolvedWithinTenRounds ==
    (/\ Quiescent
     /\ SingleInvocation
     /\ DistinctKeys
     /\ serverErr = {}
     /\ Len(requests) - Len(FirstChunk(requests))
            <= maxDatapointsPerRequest * InitialMaxRequests)
    => AllResolvedAndCached

\* 101 requests, one of priority 1 and a hundred of priority 10, were all
\* resolved and cached: the first call sent one key, ten rounds sent ten each.
C3_Witness ==
    /\ Quiescent
    /\ SingleInvocation
    /\ Len(requests) = maxDatapointsPerRequest * InitialMaxRequests + 1
    /\ Len(netLog) = InitialMaxRequests + 1
    /\ Len(netLog[1].request) = 1
    /\ AllResolvedAndCached

\* C4: every network call issued by combinedGet carries at most 10 requests,
\* and no two requests in it have the same key.
C4_ChunkOfTenDistinctKeys ==
    \A n \in 1..Len(netLog) :
        /\ Len(netLog[n].request) <= maxDatapointsPerRequest
        /\ Cardinality(KeysOf(netLog[n].request)) = Len(netLog[n].request)

\* A call went out with 10 requests, one of them sharing its key with a
\* request submitted in the same list, while more requests were waiting.
C4_Witness ==
    \E n \in 1..Len(netLog) :
        /\ Len(netLog[n].request) = maxDatapointsPerRequest
        /\ Len(requests) > maxDatapointsPerRequest + 1
        /\ \E i \in Range(netLog[n].request) : \E j \in RequestIds :
                i # j /\ KeyOf(i) = KeyOf(j)

----------------------------------------------------------------------------
(* Deferral by priority *)

\* The step is a call of combinedGet by the page, or one by a round timer.
FirstCallStep == calls' = calls + 1
RoundStep ==
    /\ calls' = calls
    /\ last' # last
    /\ timers # <<>>
    /\ Head(timers).kind = "combinedGet"

\* In a first call whose uncached requests hold one of priority < 10, no
\* request of priority >= 10 is in the network request, and with the counter
\* above 0 the requests so deferred are all in the list of a secondary round
\* set to run 50 ms later.
DeferredFromFirstCall ==
    FirstCallStep =>
        /\ (\E k \in 1..Len(last'.dataRequest) :
                PriorityBelow10(requests[last'.dataRequest[k]]))
            => /\ \A k \in 1..Len(last'.currentRequest) :
                    ~PriorityAtLeast10(requests[last'.currentRequest[k]])
               /\ \A k \in 1..Len(last'.dataRequest) :
                    PriorityAtLeast10(requests[last'.dataRequest[k]])
                    => last'.dataRequest[k] \in Range(last'.deferredRequests)
        /\ (maxRequests > 0 /\ last'.deferredRequests # <<>>)
            => \E k \in 1..Len(timers') :
                /\ timers'[k].kind = "combinedGet"
                /\ timers'[k].due = RoundDelay
                /\ timers'[k].deferred = last'.deferredRequests
                /\ Range(last'.deferredRequests)
                        \subseteq Range(Ids(timers'[k].remaining))

\* The deferred request is resolved from the cache by the round now run, or
\* its key is in the network request of that round.
SentOrResolvedThere(id) ==
    \/ id \in Range(last'.hits)
    \/ KeyOf(id) \in KeysOf(last'.currentRequest)

\* C5, as stated: in a first call whose uncached requests include one of
\* priority < 10, no request of priority >= 10 is part of the network
\* request; the counter being above 0, each such request is passed to the
\* secondary round scheduled 50 ms later and is sent or resolved there.
C5_Original ==
    [][/\ DeferredFromFirstCall
       /\ RoundStep =>
            \A id \in Range(Head(timers).deferred) : SentOrResolvedThere(id)]_vars

\* C5, amended: in a first call whose uncached requests include one of
\* priority < 10, no request of priority >= 10 is part of the network
\* request; the counter being above 0, each such request is passed to the
\* secondary round scheduled 50 ms later, and is sent or resolved there when
\* that round finds at most 10 different uncached keys in its list (with
\* more, the round sends the first 10 keys and passes the rest on again).
C5_DeferredToSecondaryRound ==
    [][/\ DeferredFromFirstCall
       /\ (RoundStep /\ Cardinality(KeysOf(last'.dataRequest))
                            <= maxDatapointsPerRequest) =>
            \A id \in Range(Head(timers).deferred) : SentOrResolvedThere(id)]_vars

\* A list with a request of priority 1 and requests of priority 10 was
\* submitted: the first call carried the former only, a secondary round
\* carried one of the latter, whose callback has been invoked.
C5_Witness ==
    /\ SingleInvocation
    /\ Len(netLog) >= 2
    /\ \A k \in 1..Len(netLog[1].request) :
            PriorityBelow10(requests[netLog[1].request[k]])
    /\ netLog[2].secondaryRequest
    /\ \E k \in 1..Len(netLog[2].request) :
        /\ PriorityAtLeast10(requests[netLog[2].request[k]])
        /\ Resolved(netLog[2].request[k])

----------------------------------------------------------------------------
(* Cache hits and misses *)

\* The step is a run of combinedGet.
RunStep == last' # last

\* The cache entry of the request's key is younger than its maxAge; it is
\* older, or there is none.
YoungerThanMaxAge(id) ==
    /\ KeyOf(id) \in DOMAIN cache
    /\ now - cache[KeyOf(id)].storedAt < requests[id].maxAge
OlderOrAbsent(id) ==
    \/ KeyOf(id) \notin DOMAIN cache
    \/ now - cache[KeyOf(id)].storedAt > requests[id].maxAge

\* C7: a request whose key has a cache entry younger than its maxAge is
\* resolved from the cache (a timer is set that invokes its callback with
\* the cached value) and is not in the network call of that round; a request
\* whose entry is older than maxAge, or absent, is a miss and is put in the
\* queue of requests to fetch.
C7_HitOrMissByAge ==
    [][RunStep =>
        \A n \in 1..Len(last'.combinedRequest) :
            LET id == last'.combinedRequest[n]
            IN  /\ YoungerThanMaxAge(id) =>
                    /\ id \in Range(last'.hits)
                    /\ id \notin Range(last'.dataRequest)
                    /\ id \notin Range(last'.currentRequest)
                    /\ \E k \in 1..Len(timers') :
                        /\ timers'[k].kind = "resolve"
                        /\ timers'[k].request[1].id = id
                        /\ timers'[k].value[1] = cache[KeyOf(id)].value
                /\ OlderOrAbsent(id) =>
                    /\ id \in Range(last'.dataRequest)
                    /\ id \notin Range(last'.hits)]_vars

\* A call found the entry of one request 100 s old and resolved it from the
\* cache, and the entry of another 4000 s old and sent it over the network.
C7_Witness ==
    /\ last.ran
    /\ \E i \in Range(last.hits) :
        /\ now - cache[KeyOf(i)].storedAt = 100
        /\ delivered[i] = <<cache[KeyOf(i)].value>>
    /\ \E j \in Range(last.currentRequest) :
        /\ KeyOf(j) \in DOMAIN cache
        /\ now - cache[KeyOf(j)].storedAt = 4000

----------------------------------------------------------------------------
(* Per-key errors in a response *)

\* The requests of the call that hold the key.
HoldersOf(call, key) ==
    {call.dataRequest[call.keyIndexesMap[key][n]].id :
        n \in 1..Len(call.keyIndexesMap[key])}

\* The key is held by several requests of the call.
SharedIn(call, key) == Len(call.keyIndexesMap[key]) > 1

\* The handler gets as far as the k-th result: no earlier result is an error
\* for a key held by several requests, on which line 209 throws.
ReachedBy(call, results, k) ==
    \A j \in 1..(k - 1) :
        ~(isWPError(results[j].result) /\ SharedIn(call, results[j].key))

\* The step wrote the result to the cache under its key.
WrittenToCache(r) ==
    /\ r.key \in DOMAIN cache'
    /\ cache'[r.key] = [value |-> r.result, storedAt |-> now]

\* The step left the cache as it was for the key.
CacheUntouched(key) ==
    IF key \in DOMAIN cache
    THEN key \in DOMAIN cache' /\ cache'[key] = cache[key]
    ELSE key \notin DOMAIN cache'

\* The step invoked the callback of the request, once, with the result.
InvokedWith(id, result) == delivered'[id] = Append(delivered[id], result)

\* C8, as stated: when the response of a network call is handled, a per-key
\* result that is a service-side error is never written to the cache, while
\* every key of the same response with a non-error result is written.
C8_ErrorNotCachedOthersCached ==
    [][\A i \in 1..Len(inflight) :
        inflight' = Without(inflight, i) =>
            LET results == Response(serverErr, inflight[i])
            IN  \A k \in 1..Len(results) :
                    IF isWPError(results[k].result)
                    THEN CacheUntouched(results[k].key)
                    ELSE WrittenToCache(results[k])]_vars

C10_FailureIsolatedPerKey ==
    [][\A i \in 1..Len(inflight) :
        inflight' = Without(inflight, i) =>
            LET call == inflight[i]
                results == Response(serverErr, call)
            IN  (\E e \in 1..Len(results) : isWPError(results[e].result))
                => \A k \in 1..Len(results) :
                        ~isWPError(results[k].result)
                        => /\ WrittenToCache(results[k])
                           /\ \A id \in HoldersOf(call, results[k].key) :
                                InvokedWith(id, results[k].result)]_vars

\* ceil( n / 10 )
ChunksOf(n) == (n + maxDatapointsPerRequest - 1) \div maxDatapointsPerRequest

\* The ids from lo to hi, in order.
IdsFromTo(lo, hi) == [k \in 1..(hi - lo + 1) |-> lo + k - 1]

\* C6: starting from an empty cache with N requests of different keys, all
\* of priority below 10 and N at most 110, exactly ceil(N/10) network calls
\* are issued: never more, and all of them once nothing is pending; the n-th
\* call carries the n-th ten of the requests (for N = 15: 10, then the
\* remaining 5), and every call after the first is issued by a secondary
\* round.  The lists of SpecBulk start from an empty cache.
C6_CeilingOfCalls ==
    (/\ SingleInvocation
     /\ Len(requests) <= RetryBudget
     /\ \A id \in RequestIds : PriorityBelow10(requests[id])
     /\ DistinctKeys)
    => /\ Len(netLog) <= ChunksOf(Len(requests))
       /\ Quiescent => Len(netLog) = ChunksOf(Len(requests))
       /\ \A n \in 1..Len(netLog) :
            /\ netLog[n].request =
                    IdsFromTo(maxDatapointsPerRequest * (n - 1) + 1,
                              IF maxDatapointsPerRequest * n < Len(requests)
                              THEN maxDatapointsPerRequest * n
                              ELSE Len(requests))
            /\ netLog[n].secondaryRequest <=> n > 1

\* 15 requests of priority 1 were sent in two calls, 10 by the first call and
\* 5 by the secondary round.
C6_Witness ==
    /\ Quiescent
    /\ SingleInvocation
    /\ \A id \in RequestIds : PriorityBelow10(requests[id])
    /\ DistinctKeys
    /\ Len(requests) = 15
    /\ netLog = <<[request |-> IdsFromTo(1, 10), secondaryRequest |-> FALSE,
                   remaining |-> IdsFromTo(11, 15), scheduled |-> TRUE,
                   rejected |-> FALSE],
                  [request |-> IdsFromTo(11, 15), secondaryRequest |-> TRUE,
                   remaining |-> <<>>, scheduled |-> FALSE,
                   rejected |-> FALSE]>>

----------------------------------------------------------------------------
(* Errors handed to handleWPError *)

\* The handlers registered that fill the error notification with the
\* component.
Registered(fs, component) ==
    SelectSeq(fs, LAMBDA h : h.callback = FillsWith(component))

\* The calls of handleWPError made with the error.
ClassifiedWith(hs, error) == SelectSeq(hs, LAMBDA h : h.error = error)

\* C11, as stated: when a response carries an error of reason 'forbidden'
\* for a key shared by three requests of the same call, the error is handed
\* to handleWPError exactly once for that response and exactly one
\* permission notification is registered.
C11_SharedErrorClassifiedOnce ==
    [][\A i \in 1..Len(inflight) :
        inflight' = Without(inflight, i) =>
            LET call == inflight[i]
                results == Response(serverErr, call)
            IN  \A k \in 1..Len(results) :
                    ( /\ isWPError(results[k].result)
                      /\ results[k].result.data = ForbiddenData
                      /\ Len(call.keyIndexesMap[results[k].key]) = 3 )
                    => /\ Len(ClassifiedWith(handled', results[k].result))
                            = Len(ClassifiedWith(handled, results[k].result)) + 1
                       /\ Len(Registered(filters', "DashboardPermissionAlert"))
                            = Len(Registered(filters, "DashboardPermissionAlert")) + 1
      ]_vars

----------------------------------------------------------------------------
(* A callback that throws *)

\* The step is the then handler of the i-th pending call.
ResponseStep(i) == inflight' = Without(inflight, i) /\ rejects' = rejects

\* The callback of a request of the call throws.
HasThrower(call) ==
    \E n \in 1..Len(call.dataRequest) : resolveThrows(call.dataRequest[n])

\* C12, as stated: if the callback of a request throws while the response of
\* a call is processed, the exception does not leave resolve: every key of
\* the response is still cached and the callback of every request holding it
\* is still invoked.
C12_ThrowingCallbackIsolated ==
    [][\A i \in 1..Len(inflight) :
        (ResponseStep(i) /\ HasThrower(inflight[i])) =>
            LET call == inflight[i]
                results == Response(serverErr, call)
            IN  \A k \in 1..Len(results) :
                    /\ WrittenToCache(results[k])
                    /\ \A id \in HoldersOf(call, results[k].key) :
                        InvokedWith(id, results[k].result)]_vars

----------------------------------------------------------------------------
(* A network call that rejects *)

\* The step is the catch handler of the i-th pending call, which rejected.
RejectStep(i) == inflight' = Without(inflight, i) /\ rejects' = rejects - 1

\* The requests sent with the n-th network call.
ChunkOf(log, n) == Range(log[n].request)

\* C13: when the network call of a chunk rejects, the handler invokes no
\* callback, writes no cache entry, leaves the entries of earlier chunks as
\* they are and sets no timer; from then on no request of the chunk is in
\* another network call, the callback of none of them has been invoked, and
\* no cache entry holds a result of that call.
C13_RejectedChunkGivenUp ==
    [][/\ \A i \in 1..Len(inflight) :
            RejectStep(i) =>
                /\ cache' = cache
                /\ delivered' = delivered
                /\ timers' = timers
                /\ Len(netLog') = Len(netLog)
       /\ \A n \in 1..Len(netLog') :
            netLog'[n].rejected =>
                /\ \A m \in 1..Len(netLog') :
                    m # n => ChunkOf(netLog', m) \cap ChunkOf(netLog', n) = {}
                /\ \A id \in ChunkOf(netLog', n) :
                    /\ delivered'[id] = <<>>
                    /\ KeyOf(id) \in DOMAIN cache'
                        => cache'[KeyOf(id)].value.ver # n]_vars

\* The first call of a chain was answered and its result cached, the call of
\* the secondary round rejected, and nothing is pending any more: the
\* requests of the round were not resolved.
C13_Witness ==
    /\ Quiescent
    /\ Len(netLog) = 2
    /\ ~netLog[1].rejected
    /\ netLog[2].rejected
    /\ \A id \in ChunkOf(netLog, 1) :
        KeyOf(id) \in DOMAIN cache /\ delivered[id] = <<cache[KeyOf(id)].value>>
    /\ \A id \in ChunkOf(netLog, 2) : delivered[id] = <<>>

----------------------------------------------------------------------------
(* The counter of secondary rounds *)

\* The network calls made by secondary rounds.
SecondaryCalls == SelectSeq(netLog, LAMBDA call : call.secondaryRequest)

\* The last run of combinedGet found the counter at 0 with requests left over.
Exhausted ==
    /\ last.ran
    /\ last.counterBefore = 0
    /\ last.remainingDatapoints # <<>>

\* A secondary round is pending on a timer.
RoundPending == \E k \in 1..Len(timers) : timers[k].kind = "combinedGet"

\* The request was in no network call.
NeverSent(id) == \A n \in 1..Len(netLog) : id \notin ChunkOf(netLog, n)

\* C14: starting with the counter at 10, the chain of one invocation makes at
\* most 10 secondary rounds and at most 11 network calls; once a round has
\* found the counter at 0 with requests left over, no round is pending, the
\* requests left over are in no network call and their callbacks are not
\* invoked, and the counter is back at 10.
C14_AtMostTenSecondaryRounds ==
    /\ Len(SecondaryCalls) <= InitialMaxRequests
    /\ Len(netLog) <= InitialMaxRequests + 1
    /\ Exhausted =>
        /\ ~last.scheduled
        /\ ~RoundPending
        /\ maxRequests = InitialMaxRequests
        /\ \A n \in 1..Len(last.remainingDatapoints) :
            /\ NeverSent(last.remainingDatapoints[n])
            /\ delivered[last.remainingDatapoints[n]] = <<>>

\* A list of 111 requests of different keys was submitted: the chain is over
\* after 11 network calls, the tenth secondary round having found the
\* counter at 0 and dropped the last request.
C14_Witness ==
    /\ Quiescent
    /\ Exhausted
    /\ Len(requests) = 111
    /\ Len(netLog) = InitialMaxRequests + 1
    /\ Len(last.remainingDatapoints) = 1
    /\ maxRequests = InitialMaxRequests

\* C15, as stated: in every state with no secondary round pending on a
\* timer the counter is at its initial value of 10, also when the last
\* round of a chain was satisfied from the cache.
C15_CounterResetWhenQuiescent ==
    ~RoundPending => maxRequests = InitialMaxRequests

----------------------------------------------------------------------------
(* The signals of a completed load *)

\* The doAction( 'googlesitekit.dataLoaded', source ) calls made.
Signals(done, source) == SelectSeq(done, LAMBDA d : d = source)

\* C16, as stated: the 'api' signal is emitted exactly once when the
\* response of the last chunk of a chain (the one with nothing remaining)
\* has been processed without error, whatever the number of keys in the
\* response, and is not emitted for a chunk with requests remaining.
C16_ApiSignalOncePerChain ==
    [][\A i \in 1..Len(inflight) :
        ResponseStep(i) =>
            LET call == inflight[i]
                results == Response(serverErr, call)
            IN  (\A k \in 1..Len(results) : ~isWPError(results[k].result))
                => Len(Signals(dataLoaded', "api"))
                    = Len(Signals(dataLoaded, "api"))
                        + (IF call.remainingLength = 0 THEN 1 ELSE 0)]_vars

\* The secondary rounds pending on a timer.
RoundTimers(ts) == SelectSeq(ts, LAMBDA timer : timer.kind = "combinedGet")

\* C17: a call of combinedGet with no uncached request (every request is a
\* cache hit, or the list is empty) emits the 'cache' signal once and
\* returns: it issues no network call, schedules no secondary round, writes
\* nothing to the cache and leaves the counter as it is.  A call with an
\* uncached request emits no 'cache' signal.
C17_AllFromCacheSignalsOnce ==
    [][(FirstCallStep \/ RoundStep) =>
        IF last'.dataRequest = <<>>
        THEN /\ dataLoaded' = Append(dataLoaded, "cache")
             /\ netLog' = netLog
             /\ inflight' = inflight
             /\ ~last'.scheduled
             /\ Len(RoundTimers(timers')) <= Len(RoundTimers(timers))
             /\ cache' = cache
             /\ maxRequests' = maxRequests
        ELSE /\ dataLoaded' = dataLoaded
             /\ Len(netLog') = Len(netLog) + 1]_vars

\* A call found every one of its requests in the cache: it emitted 'cache'
\* and no network call was made.
C17_Witness ==
    /\ last.ran
    /\ Len(last.hits) >= 2
    /\ last.dataRequest = <<>>
    /\ dataLoaded = <<"cache">>
    /\ netLog = <<>>
    /\ maxRequests = InitialMaxRequests

----------------------------------------------------------------------------
(* Writes: dataAPI.set *)

\* The step settles a set call; what its promise settles to.
WriteSettles == Len(writes'.settled) = Len(writes.settled) + 1
Outcome == writes'.settled[Len(writes'.settled)]

\* The keys of the group of the datapoint that have a cache entry.
GroupIn(c, datapoint) == {key \in DOMAIN c : key[1] = datapoint}

\* C18: once a set call has completed successfully, no key of the group of
\* its datapoint has a cache entry, whatever its data options, so that a
\* cached read of such a key is a miss; when the network call of the write
\* fails, no cache entry is removed and the promise rejects with the error.
C18_WriteInvalidatesGroup ==
    [][WriteSettles =>
        IF Outcome.promise = "resolved"
        THEN /\ GroupIn(cache', Outcome.datapoint) = {}
             /\ \A key \in WriteKeys :
                    key[1] = Outcome.datapoint
                    => getCache(cache', now, key, HourMaxAge) = Undefined
        ELSE /\ cache' = cache
             /\ Outcome.promise = "rejected"
             /\ Outcome.value \in WriteErrors
             /\ handled' = Append(handled, [datapoint |-> Outcome.datapoint,
                                            error |-> Outcome.value])]_vars

\* With entries of both datapoints in the cache, a write to datapoint 1
\* succeeded and a write to datapoint 2 failed: the entries of datapoint 1 are
\* gone, with and without data options, and those of datapoint 2 are there.
C18_Witness ==
    /\ Len(writes.settled) = 2
    /\ writes.settled[1].datapoint = 1
    /\ writes.settled[1].promise = "resolved"
    /\ writes.settled[2].datapoint = 2
    /\ writes.settled[2].promise = "rejected"
    /\ DOMAIN cache = {key \in WriteKeys : key[1] = 2}

----------------------------------------------------------------------------
(* Notifications *)

\* The step is a call of handleWPError made by a failed write.
ClassifyStep == WriteSettles /\ Outcome.promise = "rejected"

\* The handlers the step added, after those that were there.
AddedBy == SubSeq(filters', Len(filters) + 1, Len(filters'))

\* The handlers of the hook.
OfHook(fs, hookName) == SelectSeq(fs, LAMBDA h : h.hookName = hookName)

\* 1 for true, 0 for false.
Count(b) == IF b THEN 1 ELSE 0

\* C19: a call of handleWPError registers notifications by the mapping, and
\* nothing else: the scopes alert for the reasons authError and
\* insufficientPermissions, the permission alert for the reason forbidden,
\* the reconnect notice for a reconnectURL, several of them when several
\* apply; the count filter is added, with the number of notices, when one
\* applies.  An error with no data, or with neither reason nor reconnectURL,
\* registers nothing and adds no count filter.
C19_NotificationsByMapping ==
    [][ClassifyStep =>
        LET data == Outcome.value.data
            scopes == /\ data # Undefined
                      /\ data[1].reason \in {"authError", "insufficientPermissions"}
            permission == data # Undefined /\ data[1].reason = "forbidden"
            reconnect == data # Undefined /\ data[1].reconnectURL
            kinds == Count(scopes) + Count(permission) + Count(reconnect)
        IN  /\ SubSeq(filters', 1, Len(filters)) = filters
            /\ Len(Registered(AddedBy, "DashboardAuthScopesAlert")) = Count(scopes)
            /\ Len(Registered(AddedBy, "DashboardPermissionAlert")) = Count(permission)
            /\ Len(Registered(AddedBy, "AuthError")) = Count(reconnect)
            /\ Len(OfHook(AddedBy, "googlesitekit.ErrorNotification")) = kinds
            /\ OfHook(AddedBy, "googlesitekit.TotalNotifications")
                = IF kinds > 0
                  THEN <<[hookName |-> "googlesitekit.TotalNotifications",
                          namespace |-> "googlesitekit.AuthCountIncrease",
                          callback |-> AddsToCount(kinds)]>>
                  ELSE <<>>
            /\ Len(AddedBy) = kinds + Count(kinds > 0)]_vars

\* A write failed with an error without data and registered nothing; another
\* failed with the reason forbidden and a reconnectURL, and registered the
\* permission alert, the reconnect notice and a count filter adding 2.
C19_Witness ==
    /\ Len(writes.settled) = 2
    /\ writes.settled[1].promise = "rejected"
    /\ writes.settled[1].value.data = Undefined
    /\ writes.settled[2].promise = "rejected"
    /\ writes.settled[2].value.data = ErrorData("forbidden", TRUE)
    /\ Len(filters) = 3
    /\ Registered(filters, "DashboardPermissionAlert") = <<filters[1]>>
    /\ Registered(filters, "AuthError") = <<filters[2]>>
    /\ filters[3].callback = AddsToCount(2)

\* The components that handleWPError registers, one per kind of notification.
Components == {"DashboardAuthScopesAlert", "DashboardPermissionAlert", "AuthError"}

\* The kinds of notification registered.
KindsIn(fs) == {component \in Components : Registered(fs, component) # <<>>}

\* The sum of the numbers of a sequence.
RECURSIVE SumOf(_)
SumOf(seq) == IF seq = <<>> THEN 0 ELSE Head(seq) + SumOf(Tail(seq))

\* The step computes the notification count.
CountStep == Len(total') = Len(total) + 1

\* C20, as stated: over any sequence of handleWPError calls each kind of
\* notification is registered at most once, a repeated error of the same
\* kind adding no second registration, and the notification count is
\* increased once by the number of kinds newly added, not once per call:
\* whenever the count is computed, the increases so far add up to the number
\* of kinds registered.
C20_RegisteredOncePerKind ==
    [][/\ \A component \in Components :
            Len(Registered(filters', component)) <= 1
       /\ CountStep => SumOf(total') = Cardinality(KindsIn(filters))]_vars

----------------------------------------------------------------------------
(* The date range of a request *)

\* The step is a call of requestWithDateRange; the request given and the
\* copy returned.
CopyStep == Len(copies'.made) = Len(copies.made) + 1
Original == requests[Len(copies'.made)]
Returned == copies'.made[Len(copies'.made)]

\* C21: the request returned by requestWithDateRange has as data.dateRange
\* the value of the caller when there is one, the current slug when there is
\* none, and the current slug with 'last' replaced by 'prev' when the caller
\* gave the placeholder; the other data options and the other fields are
\* those of the original, and the original is not modified.
C21_DateRangeFilled ==
    [][CopyStep =>
        LET given == "dateRange" \in DOMAIN Original.data
            slug == copies.dateRange
        IN  /\ Returned.data["dateRange"] =
                IF given /\ Original.data["dateRange"] = Placeholder
                THEN <<"prev">> \o Tail(slug)
                ELSE IF given THEN Original.data["dateRange"]
                ELSE slug
            /\ DOMAIN Returned.data = DOMAIN Original.data \cup {"dateRange"}
            /\ \A option \in DOMAIN Original.data \ {"dateRange"} :
                Returned.data[option] = Original.data[option]
            /\ [Returned EXCEPT !.data = Original.data] = Original
            /\ requests' = requests]_vars

\* With 'last 90 days' selected, one request with the placeholder and another
\* option got 'prev 90 days' and kept the option, and one with a date range
\* of its own kept it.
C21_Witness ==
    /\ copies.dateRange = <<"last", "90", "days">>
    /\ Len(copies.made) = 2
    /\ requests[1].data = Spread(DataWith(Placeholder), [o \in {"url"} |-> <<"/page">>])
    /\ copies.made[1].data =
        Spread(DataWith(<<"prev", "90", "days">>), [o \in {"url"} |-> <<"/page">>])
    /\ requests[2].data = DataWith(<<"last", "7", "days">>)
    /\ copies.made[2].data = DataWith(<<"last", "7", "days">>)

----------------------------------------------------------------------------
(* The counter shared by the invocations *)

\* The network call was made by a run of combinedGet that had requests left
\* over and scheduled no round for them.
DroppedBy(call) == IF call.scheduled THEN <<>> ELSE call.remaining

\* C22: the counter is shared by the invocations.  A run of combinedGet
\* that has requests left over and finds the counter at 0, whichever
\* invocation took it there, schedules no round: these requests are in no
\* network call and their callbacks are never invoked.  (The witness is an
\* interleaving of two invocations, each resolved in full when run alone, in
\* which this happens to the second.)
C22_SharedCounterDropsRequests ==
    [][\A n \in 1..Len(netLog') :
        DroppedBy(netLog'[n]) # <<>> =>
            /\ n > Len(netLog) => maxRequests = 0
            /\ \A k \in 1..Len(DroppedBy(netLog'[n])) :
                /\ delivered'[DroppedBy(netLog'[n])[k]] = <<>>
                /\ \A m \in 1..Len(netLog') :
                    DroppedBy(netLog'[n])[k] \notin ChunkOf(netLog', m)]_vars

\* A list of 101 requests of different keys and a list of a priority 1 and a
\* priority 10 request were submitted in two calls.  The second call was made
\* when the chain of the first had the counter at 0: its priority 10 request
\* was deferred and dropped, while every other request was resolved.
C22_Witness ==
    /\ Quiescent
    /\ calls = 2
    /\ Len(requests) = 103
    /\ delivered[103] = <<>>
    /\ NeverSent(103)
    /\ \E n \in 1..Len(netLog) :
        /\ netLog[n].request = <<102>>
        /\ DroppedBy(netLog[n]) = <<103>>
    /\ \A id \in RequestIds \ {103} : Resolved(id)

----------------------------------------------------------------------------
(* A response key that nobody requested *)

\* The requests of the call that hold a key of its chunk.
HoldersIn(call) ==
    UNION {HoldersOf(call, call.currentRequest[n].key[1]) :
            n \in 1..Len(call.currentRequest)}

\* C23: a key of the response that no request of the round has is skipped:
\* nothing is cached under it, no callback is invoked for it and nothing is
\* thrown, so that, no callback of the call throwing, every other key of the
\* response is cached, the callbacks of its requests are invoked with its
\* result and the callback of no other request is invoked.
C23_UnknownKeySkipped ==
    [][\A i \in 1..Len(inflight) :
        (ResponseStep(i) /\ strays /\ ~HasThrower(inflight[i])) =>
            LET call == inflight[i]
                results == Response(serverErr, call)
            IN  /\ StrayKey \notin DOMAIN cache'
                /\ \A k \in 1..Len(results) :
                    /\ WrittenToCache(results[k])
                    /\ \A id \in HoldersOf(call, results[k].key) :
                        InvokedWith(id, results[k].result)
                /\ \A id \in RequestIds \ HoldersIn(call) :
                    delivered'[id] = delivered[id]
                /\ DOMAIN cache' = DOMAIN cache \cup KeysOf(Ids(call.currentRequest))]_vars

\* The service answered a call for two keys with a result for a key nobody
\* requested before the two: the two keys are cached and their requests
\* resolved, and nothing is cached under the unknown key.
C23_Witness ==
    /\ strays
    /\ Quiescent
    /\ Len(netLog) = 1
    /\ ~netLog[1].rejected
    /\ Len(netLog[1].request) = 2
    /\ StrayKey \notin DOMAIN cache
    /\ \A id \in RequestIds :
        /\ Resolved(id)
        /\ KeyOf(id) \in DOMAIN cache
        /\ delivered[id] = <<cache[KeyOf(id)].value>>

----------------------------------------------------------------------------
(* The timers of the cache hits *)

\* The place in the queue of the timer that resolves the request.
PlaceOf(ts, id) ==
    CHOOSE p \in 1..Len(ts) : ts[p].kind = "resolve" /\ ts[p].request[1].id = id

\* The timer that resolves the request is pending.
HasTimer(ts, id) ==
    \E p \in 1..Len(ts) : ts[p].kind = "resolve" /\ ts[p].request[1].id = id

\* The timers are queued by the time left.
ByDue(ts) == \A p \in 1..(Len(ts) - 1) : ts[p].due <= ts[p + 1].due

----------------------------------------------------------------------------
(* The order of the requests sent *)

\* The first request is before the second by priority: its priority is lower,
\* the second has none, or the two are equal and the first was submitted
\* first.
Precedes(a, b) ==
    \/ requests[a].priority # Undefined /\ requests[b].priority = Undefined
    \/ /\ requests[a].priority # Undefined /\ requests[b].priority # Undefined
       /\ requests[a].priority[1] < requests[b].priority[1]
    \/ requests[a].priority = requests[b].priority /\ a < b

\* The requests of the list are in that order.
InOrder(ids) == \A p \in 1..(Len(ids) - 1) : Precedes(ids[p], ids[p + 1])

\* C25: the requests carried by a network call are in ascending order of
\* priority, the requests with no priority last and those of equal priority
\* in the order submitted; the chunk is made of the first 10 of the requests
\* that stand for a key in the round, which come before all the others.
C25_ChunkInPriorityOrder ==
    [][(FirstCallStep \/ RoundStep) =>
        /\ InOrder(last'.toRequest)
        /\ InOrder(last'.currentRequest)
        /\ last'.currentRequest =
            SubSeq(last'.toRequest, 1, Len(last'.currentRequest))
        /\ Len(last'.currentRequest) =
            IF Len(last'.toRequest) < maxDatapointsPerRequest
            THEN Len(last'.toRequest) ELSE maxDatapointsPerRequest
        /\ \A p \in 1..Len(last'.currentRequest) :
            \A q \in (Len(last'.currentRequest) + 1)..Len(last'.toRequest) :
                Precedes(last'.currentRequest[p], last'.toRequest[q])
        /\ last'.fetched => netLog'[Len(netLog')].request = last'.currentRequest
      ]_vars

\* Twelve requests of priorities 20, 10 and none, submitted in turn, were
\* sent by one call: the four of priority 10, the four of priority 20 and
\* two of those with no priority, each group in the order submitted.
C25_Witness ==
    /\ Len(requests) = 12
    /\ requests[1].priority = Some(20)
    /\ requests[2].priority = Some(10)
    /\ Len(netLog) >= 1
    /\ netLog[1].request = <<2, 5, 8, 11, 1, 4, 7, 10, 3, 6>>

----------------------------------------------------------------------------
(* Deferral in a secondary round *)

\* The key of the request is in the network call of the run.
KeySent(run, id) == KeyOf(id) \in KeysOf(run.currentRequest)

\* C28, as stated: a secondary round defers no request: every uncached
\* request it receives is sent in its network call or is in the remaining
\* list as overflow of the chunk, a request being deferred for its priority
\* at most once; and a request with no priority is deferred by no call.
C28_RoundNeverDefers ==
    [][/\ RoundStep =>
            /\ last'.deferredRequests = <<>>
            /\ \A n \in 1..Len(last'.dataRequest) :
                \/ KeySent(last', last'.dataRequest[n])
                \/ last'.dataRequest[n] \in Range(last'.remainingDatapoints)
       /\ (FirstCallStep \/ RoundStep) =>
            \A n \in 1..Len(last'.deferredRequests) :
                requests[last'.deferredRequests[n]].priority # Undefined
      ]_vars

(***************************************************************************)
(* The keys sent over the network                                          *)
(***************************************************************************)

\* C26, as stated: within one invocation chain no key is sent over the
\* network more than once: two network calls of the chain have no key in
\* common, however late the response of the first one arrives.
C26_NoKeySentTwice ==
    SingleInvocation =>
        \A m, n \in 1..Len(netLog) :
            m # n => KeysOf(netLog[m].request) \cap KeysOf(netLog[n].request) = {}

(***************************************************************************)
(* The round after a call that was not answered                            *)
(***************************************************************************)

\* The n-th network call has rejected, or its promise is still pending.
Unanswered(n) ==
    \/ netLog[n].rejected
    \/ \E i \in 1..Len(inflight) : inflight[i].seq = n

\* C27, as stated: the secondary round is driven by the 50 ms timer and not
\* by the response: when the round runs after a network call that rejected
\* or has not completed, it issues a network call, each of the deferred and
\* overflow requests it was handed is in that call or is handed on to the
\* round after it, and the response of the call of a round resolves the
\* requests of the call.
C27_RoundDrivenByTimer ==
    [][/\ (RoundStep /\ calls = 1 /\ netLog # <<>> /\ Unanswered(Len(netLog))) =>
            /\ Len(netLog') = Len(netLog) + 1
            /\ netLog'[Len(netLog')].secondaryRequest
            /\ \A n \in 1..Len(Head(timers).remaining) :
                \/ KeySent(last', Head(timers).remaining[n].id)
                \/ Head(timers).remaining[n].id \in Range(last'.remainingDatapoints)
       /\ \A i \in 1..Len(inflight) :
            (/\ ResponseStep(i)
             /\ netLog[inflight[i].seq].secondaryRequest
             /\ ~HasThrower(inflight[i])) =>
                \A id \in HoldersIn(inflight[i]) : delivered'[id] # delivered[id]
      ]_vars

====
